---- MODULE Spec2Model ----
(***************************************************************************)
(* GeterosisPlayblast (src/GSPlayblast.py): the capture-and-encode engine. *)
(* The state is the configuration object's fields, the host scene and      *)
(* viewport, the output and temporary files, the encoder child process     *)
(* and the stack of execute calls that have not returned yet.  execute is  *)
(* synchronous; the only place where another handler can run inside it is  *)
(* the event pump of ExecuteFfmpegCommand.  Spec is the engine at work;    *)
(* SpecResolution, SpecFrameRange and SpecSettings are the setters and     *)
(* getters of the configuration, called with valid and invalid arguments.  *)
(* SpecScene is the engine in a scene whose cameras, sound and temporary   *)
(* directory change between calls, SpecVisibility the engine with the      *)
(* visibility setter under a listener.                                     *)
(***************************************************************************)
EXTENDS Integers, Sequences, FiniteSets, TLC

(* ------------------------------ bounds --------------------------------- *)
\* execute calls that may be in flight at once (nesting through the pump)
MaxDepth == 2

(* ------------------------- program constants --------------------------- *)
DEFAULT_FFMPEG_PATH == ""
DEFAULT_CAMERA == "None"
DEFAULT_RESOLUTION == "HD 1080"
DEFAULT_FRAME_RANGE == "Playback"
DEFAULT_CONTAINER == "mov"
DEFAULT_ENCODER == "h264"
DEFAULT_H264_QUALITY == "High"
DEFAULT_H264_PRESET == "fast"
DEFAULT_IMAGE_QUALITY == 100
DEFAULT_VISIBILITY == "Geo"

\* RESOLUTION_LOOKUP with the sizes of two rows exchanged
RESOLUTION_LOOKUP_RowsExchanged ==
    "Render" :> <<>> @@ "HD 1080" :> <<1280, 720>> @@ "HD 720" :> <<1920, 1080>>
    @@ "HD 540" :> <<960, 540>>

RESOLUTION_LOOKUP ==
    "Render" :> <<>> @@ "HD 1080" :> <<1920, 1080>> @@ "HD 720" :> <<1280, 720>>
    @@ "HD 540" :> <<960, 540>>

FRAME_RANGE_PRESETS == <<"Render", "Playback", "Animation">>

H264_QUALITIES ==
    "Very High" :> 18 @@ "High" :> 20 @@ "Medium" :> 23 @@ "Low" :> 26

H264_PRESETS == <<"veryslow", "slow", "medium", "fast", "faster", "ultrafast">>

\* the table with png listed for the mov container as well
VIDEO_ENCODER_LOOKUP_MovPng ==
    [mov |-> {"h264", "png"}, mp4 |-> {"h264"}, Image |-> {"jpg", "png", "tif"}]

VIDEO_ENCODER_LOOKUP ==
    [mov |-> {"h264"}, mp4 |-> {"h264"}, Image |-> {"jpg", "png", "tif"}]

VIEWPORT_VISIBILITY_LOOKUP == <<
    <<"Controllers", "controllers">>,
    <<"NURBS Curves", "nurbsCurves">>,
    <<"NURBS Surfaces", "nurbsSurfaces">>,
    <<"NURBS CVs", "cv">>,
    <<"NURBS Hulls", "hulls">>,
    <<"Polygons", "polymeshes">>,
    <<"Subdiv Surfaces", "subdivSurfaces">>,
    <<"Planes", "planes">>,
    <<"Lights", "lights">>,
    <<"Cameras", "cameras">>,
    <<"Image Planes", "imagePlane">>,
    <<"Joints", "joints">>,
    <<"IK Handles", "ikHandles">>,
    <<"Deformers", "deformers">>,
    <<"Dynamics", "dynamics">>,
    <<"Particle Instancers", "particleInstancers">>,
    <<"Fluids", "fluids">>,
    <<"Hair Systems", "hairSystems">>,
    <<"Follicles", "follicles">>,
    <<"nCloths", "nCloths">>,
    <<"nParticles", "nParticles">>,
    <<"nRigids", "nRigids">>,
    <<"Dynamic Constraints", "dynamicConstraints">>,
    <<"Locators", "locators">>,
    <<"Dimensions", "dimensions">>,
    <<"Pivots", "pivots">>,
    <<"Handles", "handles">>,
    <<"Texture Placements", "textures">>,
    <<"Strokes", "strokes">>,
    <<"Motion Trails", "motionTrails">>,
    <<"Plugin Shapes", "pluginShapes">>,
    <<"Clip Ghosts", "clipGhosts">>,
    <<"Grease Pencil", "greasePencils">>,
    <<"Grid", "grid">>,
    <<"HUD", "hud">>,
    <<"Hold-Outs", "hos">>,
    <<"Selection Highlighting", "sel">> >>

VIEWPORT_VISIBILITY_PRESETS ==
    [Viewport |-> {},
     Geo      |-> {"NURBS Surfaces", "Polygons"},
     Dynamics |-> {"NURBS Surfaces", "Polygons", "Dynamics", "Fluids", "nParticles"}]

\* cmds.setAttr(OverscanAttr, 1.0): overscan values are kept in tenths
NeutralOverscan == 10

(* ---------------------------- Python values --------------------------- *)
\* A number keeps its type and its value in tenths, a string or a sequence
\* its type and its value: isinstance, type(), int() and the truth test of
\* the setters tell them apart.
PyInt(n) == [type |-> "int", tenths |-> 10 * n]
PyFloat(t) == [type |-> "float", tenths |-> t]
PyStr(s) == [type |-> "str", value |-> s]
PyList(v) == [type |-> "list", value |-> v]
\* int(x): the whole part, towards zero
ToInt(x) ==
    PyInt(IF x.tenths >= 0 THEN x.tenths \div 10 ELSE -((-x.tenths) \div 10))
\* not x, for a string or a sequence
Falsy(x) == x.value = (IF x.type = "str" THEN "" ELSE <<>>)
\* the elements of a sequence
Range(f) == { f[i] : i \in DOMAIN f }

(* --------------------------- the host's side --------------------------- *)
\* cameras cmds.listCameras() returns
SceneCameras == {"persp", "cam1"}
\* the cameras' overscan attributes (tenths) in the scene at hand: persp
\* has a margin, cam1 is neutral
HostOverscans ==
    { [c \in SceneCameras |-> IF c = "persp" THEN 13 ELSE 10] }
\* what the focused model editor shows in the scene at hand: the polygons,
\* the joints and the grid
HostVisibilities ==
    { [i \in 1..Len(VIEWPORT_VISIBILITY_LOOKUP) |-> i \in {6, 12, 34}] }
\* cmds.currentUnit(q=True, time=True), as the characters of the string
TimeUnits == { <<"f","i","l","m">>, <<"s","e","c">>, <<"1","2","f","p","s">> }
\* paths SetFfmpegPath is given: unset, no such file, a directory, the binary
FfmpegPaths == {"", "/opt/none", "/opt", "/opt/ffmpeg"}
\* os.path.exists / os.path.isdir on those paths
PathExists(p) == p \in {"/opt", "/opt/ffmpeg"}
PathIsDir(p) == p = "/opt"

\* the sound node of the time slider: whether a node is attached, whether
\* the file it names is on disk, and its offset attribute (a time, in frames)
NoSound == [node |-> FALSE, file |-> FALSE, offset |-> PyFloat(0)]
HostSounds == { NoSound,
                [node |-> TRUE, file |-> FALSE, offset |-> PyFloat(0)],
                [node |-> TRUE, file |-> TRUE, offset |-> PyFloat(0)],
                [node |-> TRUE, file |-> TRUE, offset |-> PyFloat(120)] }

\* defaultResolution.width and .height of the render settings
HostRenderSizes == { <<PyInt(1280), PyInt(720)>>, <<PyInt(2048), PyInt(1152)>> }
\* playbackOptions minTime/maxTime, animationStartTime/animationEndTime and
\* defaultRenderGlobals.startFrame/endFrame: times, whole or not
HostPlaybackRanges == { <<PyFloat(10), PyFloat(1000)>>, <<PyFloat(15), PyFloat(485)>> }
HostAnimationRanges == { <<PyFloat(0), PyFloat(2000)>>, <<PyFloat(-15), PyFloat(1200)>> }
HostRenderRanges == { <<PyFloat(10), PyFloat(100)>>, <<PyFloat(1010), PyFloat(1259)>> }

VARIABLES
    _FfmpegPath, _Camera, _ContainerFormat, _Encoder, _Visibility,
    _ResolutionPreset, _WidthHeight, _FrameRangePreset, _StartFrame, _EndFrame,
    _h264Quality, _h264Preset, _ImageQuality,
    panelFocus, activeCamera, viewportVisibility, overscan, timeUnit,
    renderSize, playbackRange, animationRange, renderRange, cameras, sound,
    outputExists, tempDir, ffmpegProcess, stack, returned,
    called, listening

resolution == <<_ResolutionPreset, _WidthHeight>>
frameRange == <<_FrameRangePreset, _StartFrame, _EndFrame>>
quality == <<_h264Quality, _h264Preset, _ImageQuality>>
\* the object's fields and, while a listener takes the setters' calls down
\* (listening), the last of them with what it logged
config == <<_FfmpegPath, _Camera, _ContainerFormat, _Encoder, _Visibility,
            resolution, frameRange, quality, called, listening>>
\* the scene's render settings and time ranges, the cameras in it
\* (cmds.listCameras()) and the time slider's sound
scene == <<renderSize, playbackRange, animationRange, renderRange, cameras, sound>>
host == <<panelFocus, activeCamera, viewportVisibility, overscan, timeUnit, scene>>
files == <<outputExists, tempDir>>
vars == <<config, host, files, ffmpegProcess, stack, returned>>

(* ------------------------------ logging -------------------------------- *)
LogError(Text) == [level |-> "ERROR", text |-> Text]
LogWarning(Text) == [level |-> "WARNING", text |-> Text]

(* --------------------------- pure functions ---------------------------- *)
RequiresFfmpeg(ContainerFormat) == ContainerFormat # "Image"

\* ValidateFfmpeg without its last branch: a directory passes for the binary
ValidateFfmpegNoDirectoryBranch(FfmpegPath) ==
    IF FfmpegPath = "" THEN FALSE
    ELSE IF ~PathExists(FfmpegPath) THEN FALSE
    ELSE TRUE

ValidateFfmpeg(FfmpegPath) ==
    IF FfmpegPath = "" THEN FALSE
    ELSE IF ~PathExists(FfmpegPath) THEN FALSE
    ELSE IF PathIsDir(FfmpegPath) THEN FALSE
    ELSE TRUE

\* the events ValidateFfmpeg logs on its three failing branches
ValidateFfmpegLog(FfmpegPath) ==
    IF FfmpegPath = "" THEN {LogError("ffmpeg executable path not set")}
    ELSE IF ~PathExists(FfmpegPath) THEN {LogError("ffmpeg executable path does not exist")}
    ELSE IF PathIsDir(FfmpegPath) THEN {LogError("Invalid ffmpeg path")}
    ELSE {}

\* PresetToVisibility looking the preset's names up among the flags of the
\* table (lookup_item[1]) instead of its labels (lookup_item[0])
PresetToVisibilityByFlag(VisibilityPreset) ==
    IF VisibilityPreset \notin DOMAIN VIEWPORT_VISIBILITY_PRESETS
    THEN [known |-> FALSE, data |-> <<>>]
    ELSE LET PresetNames == VIEWPORT_VISIBILITY_PRESETS[VisibilityPreset]
         IN  [known |-> TRUE,
              data |-> IF PresetNames # {}
                       THEN [i \in 1..Len(VIEWPORT_VISIBILITY_LOOKUP) |->
                                VIEWPORT_VISIBILITY_LOOKUP[i][2] \in PresetNames]
                       ELSE <<>>]

\* PresetToVisibility: <<FALSE, <<>>>> stands for the None of an unknown preset
PresetToVisibility(VisibilityPreset) ==
    IF VisibilityPreset \notin DOMAIN VIEWPORT_VISIBILITY_PRESETS
    THEN [known |-> FALSE, data |-> <<>>]
    ELSE LET PresetNames == VIEWPORT_VISIBILITY_PRESETS[VisibilityPreset]
         IN  [known |-> TRUE,
              data |-> IF PresetNames # {}
                       THEN [i \in 1..Len(VIEWPORT_VISIBILITY_LOOKUP) |->
                                VIEWPORT_VISIBILITY_LOOKUP[i][1] \in PresetNames]
                       ELSE <<>>]

\* GetViewportVisibility: the editor's flags, or None (here the empty vector,
\* which fails the same way at VisibilityData[0]) when the host query raises
GetViewportVisibility(hostRaises) ==
    IF ~panelFocus \/ hostRaises THEN <<>> ELSE viewportVisibility

\* GetVisibility answering an empty stored vector with the Geo preset
GetVisibilityOrGeo(hostRaises) ==
    IF _Visibility = <<>> THEN PresetToVisibility("Geo").data ELSE _Visibility

\* lines 269-273: the stored vector, or the viewport's when it is empty
GetVisibility(hostRaises) ==
    IF _Visibility = <<>> THEN GetViewportVisibility(hostRaises) ELSE _Visibility

\* CreateViewportVisibilityFlags raises (TypeError on None, IndexError on a
\* short vector) exactly when the data has fewer entries than the table
FlagsRaise(VisibilityData) == Len(VisibilityData) < Len(VIEWPORT_VISIBILITY_LOOKUP)

FlagNames == { VIEWPORT_VISIBILITY_LOOKUP[i][2] : i \in 1..Len(VIEWPORT_VISIBILITY_LOOKUP) }

\* the position of each flag's row in the table
FlagIndex ==
    [f \in FlagNames |-> CHOOSE i \in 1..Len(VIEWPORT_VISIBILITY_LOOKUP) :
                              VIEWPORT_VISIBILITY_LOOKUP[i][2] = f]

CreateViewportVisibilityFlags(VisibilityData) ==
    [f \in FlagNames |-> VisibilityData[FlagIndex[f]]]

\* cmds.modelEditor(ModelEditor, e=True, **VisibilityFlags): the editor's
\* flags after the edit, in table order
SetViewportVisibility(VisibilityFlags) ==
    [i \in 1..Len(VIEWPORT_VISIBILITY_LOOKUP) |->
        VisibilityFlags[VIEWPORT_VISIBILITY_LOOKUP[i][2]]]

\* PresetToResolution: ok = FALSE is the RuntimeError of the last branch
\* (and the TypeError of an unhashable argument)
PresetToResolution(ResolutionPreset) ==
    IF ResolutionPreset.type = "str" /\ ResolutionPreset.value = "Render"
    THEN [ok |-> TRUE, value |-> renderSize]
    ELSE IF ResolutionPreset.type = "str"
            /\ ResolutionPreset.value \in DOMAIN RESOLUTION_LOOKUP
    THEN [ok |-> TRUE,
          value |-> [i \in DOMAIN RESOLUTION_LOOKUP[ResolutionPreset.value] |->
                        PyInt(RESOLUTION_LOOKUP[ResolutionPreset.value][i])]]
    ELSE [ok |-> FALSE, value |-> <<>>]

GetResolutionWidthHeight ==
    IF _ResolutionPreset # "None"
    THEN PresetToResolution(PyStr(_ResolutionPreset)).value
    ELSE _WidthHeight

\* PresetToFrameRange: ok = FALSE is the RuntimeError of the last branch
PresetToFrameRange(FrameRangePreset) ==
    IF FrameRangePreset.type # "str" THEN [ok |-> FALSE, value |-> <<>>]
    ELSE IF FrameRangePreset.value = "Render"
    THEN [ok |-> TRUE, value |-> <<ToInt(renderRange[1]), ToInt(renderRange[2])>>]
    ELSE IF FrameRangePreset.value = "Playback"
    THEN [ok |-> TRUE, value |-> <<ToInt(playbackRange[1]), ToInt(playbackRange[2])>>]
    ELSE IF FrameRangePreset.value = "Animation"
    THEN [ok |-> TRUE, value |-> <<ToInt(animationRange[1]), ToInt(animationRange[2])>>]
    ELSE [ok |-> FALSE, value |-> <<>>]

\* ResolveFrameRange: ok = FALSE is the None after the except branch, which
\* takes the IndexError of a short sequence and the error of an unknown name
ResolveFrameRange(FrameRange) ==
    IF FrameRange.type = "list"
    THEN IF Len(FrameRange.value) >= 2
         THEN [ok |-> TRUE, value |-> <<FrameRange.value[1], FrameRange.value[2]>>]
         ELSE [ok |-> FALSE, value |-> <<>>]
    ELSE PresetToFrameRange(FrameRange)

ResolveFrameRangeLog(FrameRange) ==
    IF ResolveFrameRange(FrameRange).ok THEN {}
    ELSE {LogError("Invalid frame range")}

\* GetStartEndFrame returning the frames SetFrameRange resolved
GetStartEndFrameAsStored == <<_StartFrame, _EndFrame>>

GetStartEndFrame ==
    IF _FrameRangePreset # "None"
    THEN PresetToFrameRange(PyStr(_FrameRangePreset)).value
    ELSE <<_StartFrame, _EndFrame>>

\* float(RateStr[0:-3]) for a string of decimal digits
RECURSIVE ParseDigits(_)
ParseDigits(s) ==
    IF s = <<>> THEN 0
    ELSE LET d == CASE s[Len(s)] = "0" -> 0 [] s[Len(s)] = "1" -> 1
                    [] s[Len(s)] = "2" -> 2 [] s[Len(s)] = "3" -> 3
                    [] s[Len(s)] = "4" -> 4 [] s[Len(s)] = "5" -> 5
                    [] s[Len(s)] = "6" -> 6 [] s[Len(s)] = "7" -> 7
                    [] s[Len(s)] = "8" -> 8 [] s[Len(s)] = "9" -> 9
         IN  10 * ParseDigits(SubSeq(s, 1, Len(s) - 1)) + d

EndsWithFps(RateStr) ==
    /\ Len(RateStr) >= 3
    /\ SubSeq(RateStr, Len(RateStr) - 2, Len(RateStr)) = <<"f","p","s">>

\* GetFrameRate: ok = FALSE is the RuntimeError of the last branch
GetFrameRate(RateStr) ==
    CASE RateStr = <<"g","a","m","e">>     -> [ok |-> TRUE, rate |-> 15]
      [] RateStr = <<"f","i","l","m">>     -> [ok |-> TRUE, rate |-> 24]
      [] RateStr = <<"p","a","l">>         -> [ok |-> TRUE, rate |-> 25]
      [] RateStr = <<"n","t","s","c">>     -> [ok |-> TRUE, rate |-> 30]
      [] RateStr = <<"s","h","o","w">>     -> [ok |-> TRUE, rate |-> 48]
      [] RateStr = <<"p","a","l","f">>     -> [ok |-> TRUE, rate |-> 50]
      [] RateStr = <<"n","t","s","c","f">> -> [ok |-> TRUE, rate |-> 60]
      [] OTHER -> IF EndsWithFps(RateStr)
                  THEN [ok |-> TRUE, rate |-> ParseDigits(SubSeq(RateStr, 1, Len(RateStr) - 3))]
                  ELSE [ok |-> FALSE, rate |-> 0]

\* GetAudioAttributes: the file and the offset of the time slider's sound,
\* or (None, None) without a sound node or without its file on disk
GetAudioAttributes ==
    IF sound.node /\ sound.file
    THEN [FilePath |-> "audio", Offset |-> sound.offset]
    ELSE [FilePath |-> "None", Offset |-> PyFloat(0)]

\* GetAudioOffsetInSec adding the sound's offset where line 611 takes it off
GetAudioOffsetInSecFromOffset(StartFrame, AudioFrameOffset, FrameRate) ==
    [num |-> StartFrame.tenths + AudioFrameOffset.tenths, den |-> 10 * FrameRate]

\* GetAudioOffsetInSec: the quotient of line 611 as a fraction of integers
\* (the operands are in tenths of a frame; FrameRate is a float, so the
\* division is never the floor division of two ints)
GetAudioOffsetInSec(StartFrame, AudioFrameOffset, FrameRate) ==
    [num |-> StartFrame.tenths - AudioFrameOffset.tenths, den |-> 10 * FrameRate]

\* Encodeh264 adding the audio input for any sound node, its file on disk
\* or not
Encodeh264AnySoundNode(SourcePath, OutputPath, StartFrame) ==
    LET Framerate == GetFrameRate(timeUnit)
        AudioFilePath == sound.node
    IN  [ok |-> Framerate.ok,
         options |-> <<"-y", "-framerate", "-i frames">>
                     \o (IF AudioFilePath THEN <<"-ss", "-i audio">> ELSE <<>>)
                     \o <<"-c:v", "-crf:v", "-preset:v", "-profile", "-level", "-pix_fmt">>
                     \o (IF AudioFilePath THEN <<"-filter_complex", "-shortest">> ELSE <<>>)
                     \o <<"output">>,
         program |-> _FfmpegPath,
         framerate |-> Framerate.rate,
         frames |-> SourcePath,
         ss |-> IF AudioFilePath
                THEN GetAudioOffsetInSec(StartFrame, sound.offset, Framerate.rate)
                ELSE [num |-> 0, den |-> 1],
         audio |-> IF AudioFilePath THEN "audio" ELSE "None",
         crf |-> H264_QUALITIES[_h264Quality],
         preset |-> _h264Preset,
         output |-> OutputPath]

\* Encodeh264: the ffmpeg command, as the options in the order they are
\* appended and the values formatted into them; ok = FALSE is the
\* RuntimeError of GetFrameRate, raised before anything is built
Encodeh264(SourcePath, OutputPath, StartFrame) ==
    LET Framerate == GetFrameRate(timeUnit)
        Audio == GetAudioAttributes
        AudioFilePath == Audio.FilePath # "None"
    IN  [ok |-> Framerate.ok,
         options |-> <<"-y", "-framerate", "-i frames">>
                     \o (IF AudioFilePath THEN <<"-ss", "-i audio">> ELSE <<>>)
                     \o <<"-c:v", "-crf:v", "-preset:v", "-profile", "-level", "-pix_fmt">>
                     \o (IF AudioFilePath THEN <<"-filter_complex", "-shortest">> ELSE <<>>)
                     \o <<"output">>,
         program |-> _FfmpegPath,
         framerate |-> Framerate.rate,
         frames |-> SourcePath,
         ss |-> IF AudioFilePath
                THEN GetAudioOffsetInSec(StartFrame, Audio.Offset, Framerate.rate)
                ELSE [num |-> 0, den |-> 1],
         audio |-> Audio.FilePath,
         crf |-> H264_QUALITIES[_h264Quality],
         preset |-> _h264Preset,
         output |-> OutputPath]

(* ----------------------------- constructor ----------------------------- *)
\* no playblast_temp directory under the output directory
NoTempDir == [exists |-> FALSE, frames |-> FALSE, stray |-> FALSE, owner |-> 0]

\* the render settings and time ranges of the scene at hand, every camera
\* in place and no sound on the time slider
SceneAtHand ==
    /\ renderSize = <<PyInt(1280), PyInt(720)>>
    /\ playbackRange = <<PyFloat(10), PyFloat(1000)>>
    /\ animationRange = <<PyFloat(0), PyFloat(2000)>>
    /\ renderRange = <<PyFloat(10), PyFloat(100)>>
    /\ cameras = SceneCameras
    /\ sound = NoSound

\* lines 129-139: the defaults go through the setters, in that scene
Constructed ==
    /\ _Camera = DEFAULT_CAMERA
    /\ _ResolutionPreset = DEFAULT_RESOLUTION
    /\ _WidthHeight = PresetToResolution(PyStr(DEFAULT_RESOLUTION)).value
    /\ _FrameRangePreset = DEFAULT_FRAME_RANGE
    /\ _StartFrame = PresetToFrameRange(PyStr(DEFAULT_FRAME_RANGE)).value[1]
    /\ _EndFrame = PresetToFrameRange(PyStr(DEFAULT_FRAME_RANGE)).value[2]
    /\ _ContainerFormat = DEFAULT_CONTAINER
    /\ _Encoder = DEFAULT_ENCODER
    /\ _h264Quality = DEFAULT_H264_QUALITY
    /\ _h264Preset = DEFAULT_H264_PRESET
    /\ _ImageQuality = PyInt(DEFAULT_IMAGE_QUALITY)
    /\ _Visibility = PresetToVisibility(DEFAULT_VISIBILITY).data
    /\ ffmpegProcess = [state |-> "NotRunning", exitCode |-> 0]
    /\ called = <<>>

Init ==
    /\ _FfmpegPath \in FfmpegPaths
    /\ panelFocus \in BOOLEAN
    /\ activeCamera \in SceneCameras
    /\ viewportVisibility \in HostVisibilities
    /\ overscan \in HostOverscans
    /\ timeUnit \in TimeUnits
    /\ SceneAtHand
    /\ Constructed
    /\ outputExists \in BOOLEAN
    /\ tempDir = NoTempDir
    /\ stack = <<>>
    /\ returned = <<>>
    /\ listening = FALSE

\* the object right after construction, with a listener on its setters
InitSettings ==
    /\ _FfmpegPath = DEFAULT_FFMPEG_PATH
    /\ panelFocus = TRUE
    /\ activeCamera = "persp"
    /\ viewportVisibility \in HostVisibilities
    /\ overscan \in HostOverscans
    /\ timeUnit = <<"f","i","l","m">>
    /\ SceneAtHand
    /\ Constructed
    /\ outputExists = FALSE
    /\ tempDir = NoTempDir
    /\ stack = <<>>
    /\ returned = <<>>
    /\ listening = TRUE

(* ------------------------------ setters -------------------------------- *)
\* The setters and the host's changes are taken between two calls; inside a
\* call the pump of ExecuteFfmpegCommand delivers the Playblast click.
\* no call is in flight and the last caller has its control back
Idle == stack = <<>> /\ returned = <<>>
\* the event pump of ExecuteFfmpegCommand is running in the innermost call
Pumping == stack # <<>> /\ stack[Len(stack)].pc = "wait"

\* what the listener keeps of a setter's call: the call and what it logged
Called(op, arg, log) ==
    IF listening THEN << [op |-> op, arg |-> arg, log |-> log] >> ELSE <<>>

SetFfmpegPath(FfmpegPath) ==
    /\ Idle
    /\ _FfmpegPath' = IF FfmpegPath # "" THEN FfmpegPath ELSE DEFAULT_FFMPEG_PATH
    /\ called' = Called("SetFfmpegPath", FfmpegPath, {})
    /\ returned' = <<>>
    /\ UNCHANGED <<_Camera, _ContainerFormat, _Encoder, _Visibility, resolution,
                   frameRange, quality, listening, host, files, ffmpegProcess, stack>>

SetCamera(Camera) ==
    /\ Idle
    /\ _Camera' = IF Camera # "None" /\ Camera \notin cameras THEN "None" ELSE Camera
    /\ called' = Called("SetCamera", Camera,
                        IF Camera # "None" /\ Camera \notin cameras
                        THEN {LogError("Camera does not exist")} ELSE {})
    /\ returned' = <<>>
    /\ UNCHANGED <<_FfmpegPath, _ContainerFormat, _Encoder, _Visibility, resolution,
                   frameRange, quality, listening, host, files, ffmpegProcess, stack>>

\* SetResolution without line 161: the preset stays when a pair is given
SetResolutionKeepsPreset(Resolution) ==
    /\ Idle
    /\ LET Preset == PresetToResolution(Resolution)
           WidthHeight == IF Preset.ok THEN Preset.value
                          ELSE IF Resolution.type = "list" THEN Resolution.value
                          ELSE <<>>
           ValidResolution == /\ Len(WidthHeight) >= 2
                              /\ WidthHeight[1].type = "int"
                              /\ WidthHeight[2].type = "int"
           Positive == WidthHeight[1].tenths > 0 /\ WidthHeight[2].tenths > 0
       IN  /\ _ResolutionPreset' = IF Preset.ok THEN Resolution.value
                                   ELSE _ResolutionPreset
           /\ _WidthHeight' = IF ValidResolution /\ Positive
                              THEN <<WidthHeight[1], WidthHeight[2]>>
                              ELSE _WidthHeight
           /\ called' = Called("SetResolution", Resolution,
                  IF ~ValidResolution THEN {LogError("Invalid resoluton")}
                  ELSE IF ~Positive
                  THEN {LogError("Invalid resolution. Values must be greater than zero.")}
                  ELSE {})
    /\ returned' = <<>>
    /\ UNCHANGED <<_FfmpegPath, _Camera, _ContainerFormat, _Encoder, _Visibility,
                   frameRange, quality, listening, host, files, ffmpegProcess, stack>>

\* SetResolution.  The preset is cleared first and set again only for a
\* known name; WidthHeight is the preset's size or the argument itself.  The
\* characters of a string are no integers and a short sequence raises at
\* its missing index: both end in the branch of line 181.
SetResolution(Resolution) ==
    /\ Idle
    /\ LET Preset == PresetToResolution(Resolution)
           WidthHeight == IF Preset.ok THEN Preset.value
                          ELSE IF Resolution.type = "list" THEN Resolution.value
                          ELSE <<>>
           ValidResolution == /\ Len(WidthHeight) >= 2
                              /\ WidthHeight[1].type = "int"
                              /\ WidthHeight[2].type = "int"
           Positive == WidthHeight[1].tenths > 0 /\ WidthHeight[2].tenths > 0
       IN  /\ _ResolutionPreset' = IF Preset.ok THEN Resolution.value ELSE "None"
           /\ _WidthHeight' = IF ValidResolution /\ Positive
                              THEN <<WidthHeight[1], WidthHeight[2]>>
                              ELSE _WidthHeight
           /\ called' = Called("SetResolution", Resolution,
                  IF ~ValidResolution THEN {LogError("Invalid resoluton")}
                  ELSE IF ~Positive
                  THEN {LogError("Invalid resolution. Values must be greater than zero.")}
                  ELSE {})
    /\ returned' = <<>>
    /\ UNCHANGED <<_FfmpegPath, _Camera, _ContainerFormat, _Encoder, _Visibility,
                   frameRange, quality, listening, host, files, ffmpegProcess, stack>>

SetFrameRange(FrameRange) ==
    /\ Idle
    /\ LET ResolvedFrameRange == ResolveFrameRange(FrameRange)
       IN  IF ~ResolvedFrameRange.ok
           THEN UNCHANGED frameRange
           ELSE /\ _FrameRangePreset' =
                      IF FrameRange.type = "str"
                         /\ FrameRange.value \in Range(FRAME_RANGE_PRESETS)
                      THEN FrameRange.value ELSE "None"
                /\ _StartFrame' = ResolvedFrameRange.value[1]
                /\ _EndFrame' = ResolvedFrameRange.value[2]
    /\ called' = Called("SetFrameRange", FrameRange, ResolveFrameRangeLog(FrameRange))
    /\ returned' = <<>>
    /\ UNCHANGED <<_FfmpegPath, _Camera, _ContainerFormat, _Encoder, _Visibility,
                   resolution, quality, listening, host, files, ffmpegProcess, stack>>

\* SetEncoding without the test of lines 325-327
SetEncodingAnyEncoder(ContainerFormat, Encoder) ==
    /\ Idle
    /\ IF ContainerFormat \notin DOMAIN VIDEO_ENCODER_LOOKUP
       THEN UNCHANGED <<_ContainerFormat, _Encoder>>
       ELSE /\ _ContainerFormat' = ContainerFormat
            /\ _Encoder' = Encoder
    /\ called' = Called("SetEncoding", <<ContainerFormat, Encoder>>,
           IF ContainerFormat \notin DOMAIN VIDEO_ENCODER_LOOKUP
           THEN {LogError("Invalid container")} ELSE {})
    /\ returned' = <<>>
    /\ UNCHANGED <<_FfmpegPath, _Camera, _Visibility, resolution, frameRange, quality,
                   listening, host, files, ffmpegProcess, stack>>

SetEncoding(ContainerFormat, Encoder) ==
    /\ Idle
    /\ IF ContainerFormat \notin DOMAIN VIDEO_ENCODER_LOOKUP
       THEN UNCHANGED <<_ContainerFormat, _Encoder>>
       ELSE IF Encoder \notin VIDEO_ENCODER_LOOKUP[ContainerFormat]
       THEN UNCHANGED <<_ContainerFormat, _Encoder>>
       ELSE /\ _ContainerFormat' = ContainerFormat
            /\ _Encoder' = Encoder
    /\ called' = Called("SetEncoding", <<ContainerFormat, Encoder>>,
           IF ContainerFormat \notin DOMAIN VIDEO_ENCODER_LOOKUP
           THEN {LogError("Invalid container")}
           ELSE IF Encoder \notin VIDEO_ENCODER_LOOKUP[ContainerFormat]
           THEN {LogError("Invalid encoder")}
           ELSE {})
    /\ returned' = <<>>
    /\ UNCHANGED <<_FfmpegPath, _Camera, _Visibility, resolution, frameRange, quality,
                   listening, host, files, ffmpegProcess, stack>>

Seth264Settings(Quality, Preset) ==
    /\ Idle
    /\ IF Quality \notin DOMAIN H264_QUALITIES
       THEN UNCHANGED <<_h264Quality, _h264Preset>>
       ELSE IF Preset \notin Range(H264_PRESETS)
       THEN UNCHANGED <<_h264Quality, _h264Preset>>
       ELSE /\ _h264Quality' = Quality
            /\ _h264Preset' = Preset
    /\ called' = Called("Seth264Settings", <<Quality, Preset>>,
           IF Quality \notin DOMAIN H264_QUALITIES
           THEN {LogError("Invalid h264 quality")}
           ELSE IF Preset \notin Range(H264_PRESETS)
           THEN {LogError("Invalid h264 preset")}
           ELSE {})
    /\ returned' = <<>>
    /\ UNCHANGED <<_FfmpegPath, _Camera, _ContainerFormat, _Encoder, _Visibility,
                   resolution, frameRange, _ImageQuality, listening, host, files,
                   ffmpegProcess, stack>>

\* Quality > 0 and Quality <= 100, on the number as it is given
SetImageSettings(Quality) ==
    /\ Idle
    /\ _ImageQuality' = IF Quality.tenths > 0 /\ Quality.tenths <= 10 * 100
                        THEN Quality ELSE _ImageQuality
    /\ called' = Called("SetImageSettings", Quality,
           IF Quality.tenths > 0 /\ Quality.tenths <= 10 * 100 THEN {}
           ELSE {LogError("Invalid image quality: {0}. Expected value between 1-100")})
    /\ returned' = <<>>
    /\ UNCHANGED <<_FfmpegPath, _Camera, _ContainerFormat, _Encoder, _Visibility,
                   resolution, frameRange, _h264Quality, _h264Preset, listening, host,
                   files, ffmpegProcess, stack>>

\* SetVisibility: a false value stands for the empty list, a name is
\* resolved by PresetToVisibility, a list or tuple is stored as it is
SetVisibility(VisibilityData) ==
    /\ Idle
    /\ LET Resolved == PresetToVisibility(VisibilityData.value)
       IN  IF Falsy(VisibilityData)
           THEN /\ _Visibility' = <<>>
                /\ called' = Called("SetVisibility", VisibilityData, {})
           ELSE IF VisibilityData.type = "list"
           THEN /\ _Visibility' = VisibilityData.value
                /\ called' = Called("SetVisibility", VisibilityData, {})
           ELSE IF ~Resolved.known
           THEN /\ UNCHANGED _Visibility
                /\ called' = Called("SetVisibility", VisibilityData,
                                    {LogError("Invaild visibility preset")})
           ELSE /\ _Visibility' = Resolved.data
                /\ called' = Called("SetVisibility", VisibilityData, {})
    /\ returned' = <<>>
    /\ UNCHANGED <<_FfmpegPath, _Camera, _ContainerFormat, _Encoder, resolution,
                   frameRange, quality, listening, host, files, ffmpegProcess, stack>>

(* --------------------- the host between two calls ---------------------- *)
\* the user gives or takes the focus of a model panel
HostFocus(focus) ==
    /\ Idle
    /\ panelFocus' = focus
    /\ returned' = <<>>
    /\ UNCHANGED <<config, activeCamera, viewportVisibility, overscan, timeUnit, scene,
                   files, ffmpegProcess, stack>>

\* the user changes the scene's time unit
HostTimeUnit(unit) ==
    /\ Idle
    /\ timeUnit' = unit
    /\ returned' = <<>>
    /\ UNCHANGED <<config, panelFocus, activeCamera, viewportVisibility, overscan, scene,
                   files, ffmpegProcess, stack>>

\* the user looks through another camera
HostLookThrough(camera) ==
    /\ Idle
    /\ camera \in cameras
    /\ activeCamera' = camera
    /\ returned' = <<>>
    /\ UNCHANGED <<config, panelFocus, viewportVisibility, overscan, timeUnit, scene,
                   files, ffmpegProcess, stack>>

\* the final output of the configured container (OutputPath, or the frames
\* of an image sequence) appears or is deleted outside the program
HostOutputFile(exists) ==
    /\ Idle
    /\ outputExists' = exists
    /\ returned' = <<>>
    /\ UNCHANGED <<config, host, tempDir, ffmpegProcess, stack>>

\* the user edits the render settings' image size; the listener's note of
\* the last setter call ends with any change of the scene
HostRenderSize(size) ==
    /\ Idle
    /\ renderSize' = size
    /\ called' = <<>>
    /\ returned' = <<>>
    /\ UNCHANGED <<_FfmpegPath, _Camera, _ContainerFormat, _Encoder, _Visibility,
                   resolution, frameRange, quality, listening, panelFocus, activeCamera,
                   viewportVisibility, overscan, timeUnit, playbackRange, animationRange,
                   renderRange, cameras, sound, files, ffmpegProcess, stack>>

\* the user moves the playback range, the animation range or the render
\* settings' frame range
HostFrameRange(which, range) ==
    /\ Idle
    /\ playbackRange' = IF which = "Playback" THEN range ELSE playbackRange
    /\ animationRange' = IF which = "Animation" THEN range ELSE animationRange
    /\ renderRange' = IF which = "Render" THEN range ELSE renderRange
    /\ called' = <<>>
    /\ returned' = <<>>
    /\ UNCHANGED <<_FfmpegPath, _Camera, _ContainerFormat, _Encoder, _Visibility,
                   resolution, frameRange, quality, listening, panelFocus, activeCamera,
                   viewportVisibility, overscan, timeUnit, renderSize, cameras, sound,
                   files, ffmpegProcess, stack>>

\* the user attaches a sound to the time slider, moves it, loses its file
\* or detaches it
HostSound(s) ==
    /\ Idle
    /\ sound' = s
    /\ returned' = <<>>
    /\ UNCHANGED <<config, panelFocus, activeCamera, viewportVisibility, overscan, timeUnit,
                   renderSize, playbackRange, animationRange, renderRange, cameras,
                   files, ffmpegProcess, stack>>

\* the user deletes a camera; a panel looking through it falls back to the
\* perspective camera, which the host does not let go
HostDeleteCamera(camera) ==
    /\ Idle
    /\ camera \in cameras \ {"persp"}
    /\ cameras' = cameras \ {camera}
    /\ activeCamera' = IF activeCamera = camera THEN "persp" ELSE activeCamera
    /\ returned' = <<>>
    /\ UNCHANGED <<config, panelFocus, viewportVisibility, overscan, timeUnit,
                   renderSize, playbackRange, animationRange, renderRange, sound,
                   files, ffmpegProcess, stack>>

\* a file that is no frame (no *.png) lands in playblast_temp, making the
\* directory if need be
HostStrayFile ==
    /\ Idle
    /\ ~tempDir.stray
    /\ tempDir' = [tempDir EXCEPT !.exists = TRUE, !.stray = TRUE]
    /\ returned' = <<>>
    /\ UNCHANGED <<config, host, outputExists, ffmpegProcess, stack>>

(* ------------------------------ execute -------------------------------- *)
\* what the viewport guard has to bring back: the panel's camera, the
\* editor's show flags and every camera's overscan
Snapshot == [camera |-> activeCamera, visibility |-> viewportVisibility,
             overscan |-> overscan]

\* GetViewportPanel: the panel with focus, or None (and an error event)
GetViewportPanel == panelFocus
GetViewportPanelLog == IF panelFocus THEN {} ELSE {LogError("Failed to get active view.")}

\* the record of one execute call: its arguments, its position, its locals,
\* and what it has done so far
NewCall(OutputDir, FileName, Overscan, ShowInViewer, Overwrite) ==
    [OutputDir |-> OutputDir, FileName |-> FileName, Overscan |-> Overscan,
     ShowInViewer |-> ShowInViewer, Overwrite |-> Overwrite,
     pc |-> "entry",
     ContainerFormat |-> _ContainerFormat,
     OriginalCamera |-> activeCamera,
     Camera |-> activeCamera,
     OriginVisibilityFlags |-> [f \in FlagNames |-> FALSE],
     OrigOverscan |-> NeutralOverscan,
     StartFrame |-> GetStartEndFrame[1],
     PlayblastFailed |-> FALSE,
     depth |-> Len(stack) + 1,
     before |-> Snapshot,
     beforeTemp |-> tempDir.exists,
     FfmpegPath |-> _FfmpegPath,
     focus |-> panelFocus,
     outputExisted |-> outputExists,
     mutated |-> FALSE,
     captures |-> 0,
     restores |-> 0,
     starts |-> 0,
     removes |-> 0,
     removedWhile |-> "NotRunning",
     shared |-> FALSE,
     encode |-> "none",
     viewer |-> FALSE,
     trace |-> <<>>,
     log |-> {},
     exit |-> "running"]

Top == stack[Len(stack)]

\* the innermost call goes on at another position
Goto(call) == stack' = [stack EXCEPT ![Len(stack)] = call]

\* the innermost call leaves execute, by return or by an exception; a
\* temporary directory it still held stops being its own
Leave(call, how, dir) ==
    /\ returned' = << [call EXCEPT !.exit = how, !.pc = "left"] >>
    /\ stack' = SubSeq(stack, 1, call.depth - 1)
    /\ tempDir' = IF dir.owner = call.depth THEN [dir EXCEPT !.owner = 0] ELSE dir

\* the capture camera taken from the panel whatever is configured
CaptureCameraOfPanel == activeCamera

\* lines 431-433: the configured camera, or the one the panel looks through
CaptureCamera == IF _Camera # "None" THEN _Camera ELSE activeCamera

\* lines 361-437: the preconditions, the capture target and the camera
execute(OutputDir, FileName, Overscan, ShowInViewer, Overwrite) ==
    /\ \/ Idle
       \/ /\ Pumping /\ Len(stack) < MaxDepth
          \* DoPlayblast reads the arguments from the same widgets again
          /\ <<OutputDir, FileName, Overscan, ShowInViewer, Overwrite>> =
                <<Top.OutputDir, Top.FileName, Top.Overscan, Top.ShowInViewer, Top.Overwrite>>
    /\ LET call == NewCall(OutputDir, FileName, Overscan, ShowInViewer, Overwrite)
           Camera == CaptureCamera
           Fail(events) ==
               /\ returned' = << [call EXCEPT !.log = events, !.exit = "returned",
                                               !.pc = "left"] >>
               /\ UNCHANGED stack
       IN  IF RequiresFfmpeg(_ContainerFormat) /\ ~ValidateFfmpeg(_FfmpegPath)
           THEN Fail(ValidateFfmpegLog(_FfmpegPath)
                     \cup {LogError("Ffmpeg executable is not configured.")})
           ELSE IF ~GetViewportPanel
           THEN Fail(GetViewportPanelLog
                     \cup {LogError("An active viewport is not selected.")})
           ELSE IF OutputDir = ""
           THEN Fail({LogError("Output directory path not set")})
           ELSE IF FileName = ""
           THEN Fail({LogError("Output file name not set")})
           ELSE IF /\ RequiresFfmpeg(_ContainerFormat)
                   /\ ~Overwrite
                   /\ outputExists
           THEN Fail({LogError("Output file already exists.")})
           ELSE IF Camera \notin cameras
           THEN Fail({LogError("Camera does not exist")})
           ELSE /\ stack' = Append(stack, [call EXCEPT !.Camera = Camera, !.pc = "mutate"])
                /\ returned' = <<>>
    /\ UNCHANGED <<config, host, files, ffmpegProcess>>

\* lines 448-451: the capture camera's overscan set to 1.0, unless the
\* caller asked for the overscan
NeutralisedOverscan(call) ==
    IF call.Overscan THEN overscan
    ELSE [overscan EXCEPT ![call.Camera] = NeutralOverscan]

\* the finally block leaving the overscan as the capture had it
RestoredOverscanSkipped(call) == overscan

\* lines 462-463: the value read at line 450 written back, unless the
\* caller asked for the overscan
RestoredOverscan(call) ==
    IF call.Overscan THEN overscan
    ELSE [overscan EXCEPT ![call.Camera] = call.OrigOverscan]

\* the host calls of lines 441-451 that may raise
HostFaults == {"none", "readVisibility", "readPlayblastVisibility", "applyVisibility",
               "getOverscan", "setOverscan"}

\* lines 439-451: look through the capture camera, read and replace the show
\* flags, neutralise the overscan.  Nothing here is inside the try block, so
\* an exception leaves execute at once.
ExecuteMutate(fault) ==
    /\ stack # <<>> /\ Top.pc = "mutate"
    /\ LET call == [Top EXCEPT !.mutated = TRUE]
           Origin == GetViewportVisibility(fault = "readVisibility")
           Playblast == GetVisibility(fault = "readPlayblastVisibility")
           ReadLog(data) == IF data = <<>>
                            THEN {LogError("Failed to get active viewport visibility.")}
                            ELSE {}
           Raise(events) ==
               Leave([call EXCEPT !.log = @ \cup events], "raised", tempDir)
       IN  /\ activeCamera' = call.Camera
           /\ IF FlagsRaise(Origin)
              THEN /\ Raise(ReadLog(Origin))
                   /\ UNCHANGED <<viewportVisibility, overscan>>
              ELSE IF FlagsRaise(Playblast)
              THEN /\ Raise(ReadLog(Playblast))
                   /\ UNCHANGED <<viewportVisibility, overscan>>
              ELSE IF fault = "applyVisibility"
              THEN /\ Raise({})
                   /\ UNCHANGED <<viewportVisibility, overscan>>
              ELSE /\ viewportVisibility' =
                          SetViewportVisibility(CreateViewportVisibilityFlags(Playblast))
                   /\ IF ~call.Overscan /\ fault \in {"getOverscan", "setOverscan"}
                      THEN /\ Raise({})
                           /\ UNCHANGED overscan
                      ELSE /\ overscan' = NeutralisedOverscan(call)
                           /\ Goto([call EXCEPT
                                      !.OriginVisibilityFlags = CreateViewportVisibilityFlags(Origin),
                                      !.OrigOverscan = overscan[call.Camera],
                                      !.pc = "capture"])
                           /\ returned' = <<>>
                           /\ UNCHANGED tempDir
    /\ UNCHANGED <<config, panelFocus, timeUnit, scene, outputExists, ffmpegProcess>>

\* lines 385-404: the paths of one call, as their components
PlayblastOutputDir(call) == <<call.OutputDir, "playblast_temp">>
OutputPath(call) == <<call.OutputDir, call.FileName, _ContainerFormat>>
\* line 473: the frame sequence the encoder reads
SourcePath(call) == PlayblastOutputDir(call) \o <<call.FileName, "%04d", "png">>

\* the options with the quality of the compressed branch in both branches
PlayblastOptionsFullQuality(call) ==
    [filename |-> IF RequiresFfmpeg(_ContainerFormat)
                  THEN PlayblastOutputDir(call) \o <<call.FileName>>
                  ELSE <<call.OutputDir, call.FileName>>,
     widthHeight |-> GetResolutionWidthHeight,
     startTime |-> call.StartFrame,
     endTime |-> GetStartEndFrame[2],
     forceOverwrite |-> IF RequiresFfmpeg(_ContainerFormat) THEN TRUE ELSE call.Overwrite,
     compression |-> IF RequiresFfmpeg(_ContainerFormat) THEN "png" ELSE _Encoder,
     quality |-> PyInt(100),
     indexFromZero |-> RequiresFfmpeg(_ContainerFormat),
     viewer |-> IF RequiresFfmpeg(_ContainerFormat) THEN FALSE ELSE call.ShowInViewer]

\* lines 385-424: the options cmds.playblast is called with
PlayblastOptions(call) ==
    [filename |-> IF RequiresFfmpeg(_ContainerFormat)
                  THEN PlayblastOutputDir(call) \o <<call.FileName>>
                  ELSE <<call.OutputDir, call.FileName>>,
     widthHeight |-> GetResolutionWidthHeight,
     startTime |-> call.StartFrame,
     endTime |-> GetStartEndFrame[2],
     forceOverwrite |-> IF RequiresFfmpeg(_ContainerFormat) THEN TRUE ELSE call.Overwrite,
     compression |-> IF RequiresFfmpeg(_ContainerFormat) THEN "png" ELSE _Encoder,
     quality |-> IF RequiresFfmpeg(_ContainerFormat) THEN PyInt(100) ELSE _ImageQuality,
     indexFromZero |-> RequiresFfmpeg(_ContainerFormat),
     viewer |-> IF RequiresFfmpeg(_ContainerFormat) THEN FALSE ELSE call.ShowInViewer]

\* the command the encoder of one call is started with
FfmpegCmd(call) == Encodeh264(SourcePath(call), OutputPath(call), call.StartFrame)

\* the capture's file name lies in the temporary directory
IntoTempDir(call) ==
    SubSeq(PlayblastOptions(call).filename, 1, 2) = PlayblastOutputDir(call)

\* cmds.playblast writing its frames where its filename option says: into
\* the temporary directory for a compressed container, to the final
\* location otherwise (frames: the primitive got as far as writing a frame)
CaptureInto(dir, call, frames) ==
    IF IntoTempDir(call) /\ frames
    THEN [exists |-> TRUE,
          frames |-> TRUE,
          stray |-> dir.stray,
          owner |-> IF dir.owner = 0 THEN call.depth ELSE dir.owner]
    ELSE dir

\* the directory is held by another call than this one
Foreign(dir, call) == dir.owner # 0 /\ dir.owner # call.depth

\* execute going on to the encoder whatever the capture primitive did
AfterCaptureUnchecked(ok) ==
    IF RequiresFfmpeg(_ContainerFormat) THEN "encode" ELSE "left"

\* lines 469-472: where execute goes on after the finally block: it returns
\* when the capture failed and when the container needs no encoder
AfterCapture(ok) ==
    IF ~ok THEN "left"
    ELSE IF RequiresFfmpeg(_ContainerFormat) THEN "encode" ELSE "left"

\* lines 453-472: the capture primitive inside try, the restoration in
\* finally, and the early return when the capture failed
ExecuteCapture(ok, frames) ==
    /\ stack # <<>> /\ Top.pc = "capture"
    /\ ok => frames
    /\ LET dir == CaptureInto(tempDir, Top, frames)
           call == [Top EXCEPT
                      !.captures = @ + 1,
                      !.PlayblastFailed = ~ok,
                      !.restores = @ + 1,
                      !.trace = @ \o <<"capture", "restore">>,
                      !.shared = @ \/ (RequiresFfmpeg(Top.ContainerFormat)
                                       /\ frames /\ Foreign(tempDir, Top)),
                      !.log = IF ok THEN @
                              ELSE @ \cup {LogError("Failed to create playblast.")}]
       IN  /\ outputExists' = IF frames /\ ~IntoTempDir(Top)
                              THEN TRUE ELSE outputExists
           /\ overscan' = RestoredOverscan(Top)
           /\ activeCamera' = Top.OriginalCamera
           /\ viewportVisibility' = SetViewportVisibility(Top.OriginVisibilityFlags)
           /\ IF AfterCapture(ok) = "left"
              THEN Leave(call, "returned", dir)
              ELSE /\ Goto([call EXCEPT !.pc = "encode"])
                   /\ tempDir' = dir
                   /\ returned' = <<>>
    /\ UNCHANGED <<config, panelFocus, timeUnit, scene, ffmpegProcess>>

\* QDir.rmdir: fails on a directory that is not there and on one that
\* still holds a file
Rmdir(dir) == dir.exists /\ ~dir.stray

\* RemoveTempDir: delete the entries matching *.png, then the directory
RemoveTempDir(dir) ==
    [exists |-> dir.exists /\ ~Rmdir(dir), frames |-> FALSE, stray |-> dir.stray,
     owner |-> 0]
\* the failed rmdir reported through LogError
RemoveTempDirLogError(dir) ==
    IF Rmdir(dir) THEN {} ELSE {LogError("Failed to remove temporary directory")}

\* lines 494-495: a failed rmdir is a warning
RemoveTempDirLog(dir) ==
    IF Rmdir(dir) THEN {} ELSE {LogWarning("Failed to remove temporary directory")}

\* lines 472-476 with Encodeh264 and the start of ExecuteFfmpegCommand: the
\* frame rate (which may raise), the command, QProcess.start, waitForStarted
ExecuteEncode(started) ==
    /\ stack # <<>> /\ Top.pc = "encode"
    /\ IF _Encoder # "h264"
       THEN /\ Leave([Top EXCEPT
                        !.removes = @ + 1,
                        !.trace = Append(@, "remove"),
                        !.removedWhile = ffmpegProcess.state,
                        !.shared = @ \/ Foreign(tempDir, Top),
                        !.log = @ \cup {LogError("Encoding failed. Unsupported encoder")}
                                  \cup RemoveTempDirLog(tempDir)],
                      "returned", RemoveTempDir(tempDir))
            /\ UNCHANGED ffmpegProcess
       ELSE IF ~FfmpegCmd(Top).ok
       THEN /\ Leave([Top EXCEPT !.encode = "unsupportedFrameRate"], "raised", tempDir)
            /\ UNCHANGED ffmpegProcess
       ELSE IF ffmpegProcess.state = "Running"
       THEN \* start() on a running QProcess only warns; waitForStarted is true
            /\ Goto([Top EXCEPT !.starts = @ + 1, !.encode = "attached", !.pc = "wait",
                                !.trace = Append(@, "start")])
            /\ returned' = <<>>
            /\ UNCHANGED <<ffmpegProcess, tempDir>>
       ELSE IF started
       THEN /\ ffmpegProcess' = [state |-> "Running", exitCode |-> 0]
            /\ Goto([Top EXCEPT !.starts = @ + 1, !.encode = "started", !.pc = "wait",
                                !.trace = Append(@, "start"),
                                !.shared = @ \/ Foreign(tempDir, Top)])
            /\ returned' = <<>>
            /\ UNCHANGED tempDir
       ELSE /\ Goto([Top EXCEPT !.starts = @ + 1, !.encode = "failedToStart",
                                !.trace = Append(@, "start"),
                                !.pc = "cleanup"])
            /\ returned' = <<>>
            /\ UNCHANGED <<ffmpegProcess, tempDir>>
    /\ UNCHANGED <<config, host, outputExists>>

\* the encoder child process terminates; with status 0 it has written the
\* output file.  QProcess learns of it in the event loop, so state() changes
\* only while processEvents runs (line 534)
FfmpegFinished(exitCode) ==
    /\ Pumping
    /\ ffmpegProcess.state = "Running"
    /\ ffmpegProcess' = [ffmpegProcess EXCEPT !.state = "NotRunning", !.exitCode = exitCode]
    /\ outputExists' = IF exitCode = 0 THEN TRUE ELSE outputExists
    /\ returned' = <<>>
    /\ UNCHANGED <<config, host, tempDir, stack>>

\* lines 533-535: the loop ends once the process is not running
ExecuteWait ==
    /\ Pumping
    /\ ffmpegProcess.state = "NotRunning"
    /\ Goto([Top EXCEPT !.pc = "cleanup",
                        !.encode = IF @ = "started"
                                   THEN (IF ffmpegProcess.exitCode = 0 THEN "exit0"
                                         ELSE "nonzero")
                                   ELSE @])
    /\ returned' = <<>>
    /\ UNCHANGED <<config, host, files, ffmpegProcess>>

\* OpenInViewer launching the viewer without looking for the file
OpenInViewerUnchecked == TRUE

\* OpenInViewer: only for a file that exists
OpenInViewer == outputExists
OpenInViewerLog ==
    IF outputExists THEN {}
    ELSE {LogError("Failed to open in viewer. File does not exists")}

\* lines 482-485: remove the temporary directory, open the viewer, return
ExecuteCleanup ==
    /\ stack # <<>> /\ Top.pc = "cleanup"
    /\ Leave([Top EXCEPT
                !.removes = @ + 1,
                !.removedWhile = ffmpegProcess.state,
                !.shared = @ \/ Foreign(tempDir, Top),
                !.viewer = Top.ShowInViewer /\ OpenInViewer,
                !.trace = @ \o (IF Top.ShowInViewer THEN <<"remove", "viewer">>
                                 ELSE <<"remove">>),
                !.log = @ \cup RemoveTempDirLog(tempDir)
                          \cup (IF Top.ShowInViewer
                                THEN OpenInViewerLog ELSE {})],
             "returned", RemoveTempDir(tempDir))
    /\ UNCHANGED <<config, host, outputExists, ffmpegProcess>>

\* the caller of the outermost execute (DoPlayblast, a script) goes on
\* after the call
CallerResumes ==
    /\ stack = <<>> /\ returned # <<>>
    /\ returned' = <<>>
    /\ UNCHANGED <<config, host, files, ffmpegProcess, stack>>

(* --------------------------- specification ----------------------------- *)
\* the (OutputDir, FileName) pairs execute is called with
OutputArguments == {<<"out", "shot">>, <<"", "shot">>, <<"out", "">>}
\* the (Overscan, ShowInViewer, Overwrite) triples execute is called with:
\* every pair of values of two of the flags occurs in one of them
FlagArguments == {<<FALSE, FALSE, FALSE>>, <<FALSE, TRUE, TRUE>>,
                  <<TRUE, FALSE, TRUE>>, <<TRUE, TRUE, FALSE>>}

Next ==
    \/ \E p \in FfmpegPaths : SetFfmpegPath(p)
    \/ \E c \in {"None", "cam1", "ghost"} : SetCamera(c)
    \/ \E c \in {"mov", "mp4", "Image", "avi"}, e \in {"h264", "png"} : SetEncoding(c, e)
    \/ \E v \in {"", "Viewport", "Geo", "Bogus"} : SetVisibility(PyStr(v))
    \/ \E b \in BOOLEAN : HostFocus(b)
    \/ \E u \in TimeUnits : HostTimeUnit(u)
    \/ \E c \in SceneCameras : HostLookThrough(c)
    \/ \E x \in BOOLEAN : HostOutputFile(x)
    \/ \E a \in OutputArguments, f \in FlagArguments :
          execute(a[1], a[2], f[1], f[2], f[3])
    \/ \E f \in HostFaults : ExecuteMutate(f)
    \/ \E ok \in BOOLEAN, n \in BOOLEAN : ExecuteCapture(ok, n)
    \/ \E s \in BOOLEAN : ExecuteEncode(s)
    \/ \E x \in {0, 1} : FfmpegFinished(x)
    \/ ExecuteWait
    \/ ExecuteCleanup
    \/ CallerResumes

Spec == Init /\ [][Next]_vars

(* ------------------ specifications of the setters ---------------------- *)
\* names and sequences SetResolution is given: two presets and an unknown
\* name; two pairs of positive integers, pairs with a zero, a negative, a
\* fractional and a whole float component, and a sequence of one
(* --------------------- execute in a scene that moves ------------------- *)
\* The same engine where, between two calls, cameras are deleted, a sound
\* is put on the time slider, a file strays into the temporary directory
\* and the frame range and the image settings are set.
InitScene ==
    /\ _FfmpegPath = "/opt/ffmpeg"
    /\ panelFocus = TRUE
    /\ activeCamera = "persp"
    /\ viewportVisibility \in HostVisibilities
    /\ overscan \in HostOverscans
    /\ timeUnit = <<"f","i","l","m">>
    /\ SceneAtHand
    /\ Constructed
    /\ outputExists = FALSE
    /\ tempDir = NoTempDir
    /\ stack = <<>>
    /\ returned = <<>>
    /\ listening = FALSE

\* the explicit frame range of these calls: it starts on frame 24
SceneFrameRanges == { <<PyInt(24), PyInt(48)>> }
\* the (Overscan, ShowInViewer, Overwrite) triples of these calls
SceneFlagArguments == {<<FALSE, TRUE, TRUE>>, <<TRUE, FALSE, TRUE>>}

NextScene ==
    \/ SetCamera("cam1")
    \/ \E e \in {<<"mov", "h264">>, <<"Image", "jpg">>} : SetEncoding(e[1], e[2])
    \/ \E r \in SceneFrameRanges : SetFrameRange(PyList(r))
    \/ SetImageSettings(PyInt(50))
    \/ \E u \in {<<"f","i","l","m">>, <<"1","2","f","p","s">>} : HostTimeUnit(u)
    \/ \E s \in HostSounds : HostSound(s)
    \/ \E c \in SceneCameras : HostDeleteCamera(c)
    \/ \E c \in SceneCameras : HostLookThrough(c)
    \/ HostStrayFile
    \/ \E f \in SceneFlagArguments : execute("out", "shot", f[1], f[2], f[3])
    \/ ExecuteMutate("none")
    \/ ExecuteCapture(TRUE, TRUE)
    \/ \E s \in BOOLEAN : ExecuteEncode(s)
    \/ \E x \in {0, 1} : FfmpegFinished(x)
    \/ ExecuteWait
    \/ ExecuteCleanup
    \/ CallerResumes

SpecScene == InitScene /\ [][NextScene]_vars

(* ------------------ execute and the visibility setter ----------------- *)
\* The engine on an object constructed with the encoder's path, with a
\* listener on its setters; SetVisibility is the only setter called.
InitVisibility ==
    /\ _FfmpegPath = "/opt/ffmpeg"
    /\ panelFocus = TRUE
    /\ activeCamera = "persp"
    /\ viewportVisibility \in HostVisibilities
    /\ overscan \in HostOverscans
    /\ timeUnit = <<"f","i","l","m">>
    /\ SceneAtHand
    /\ Constructed
    /\ outputExists = FALSE
    /\ tempDir = NoTempDir
    /\ stack = <<>>
    /\ returned = <<>>
    /\ listening = TRUE

NextVisibility ==
    \/ \E v \in {"", "Viewport", "Geo", "Dynamics"} : SetVisibility(PyStr(v))
    \/ SetVisibility(PyList(<<>>))
    \/ \E f \in FlagArguments : execute("out", "shot", f[1], f[2], f[3])
    \/ \E f \in {"none", "readPlayblastVisibility", "setOverscan"} : ExecuteMutate(f)
    \/ \E ok \in BOOLEAN : ExecuteCapture(ok, TRUE)
    \/ \E s \in BOOLEAN : ExecuteEncode(s)
    \/ \E x \in {0, 1} : FfmpegFinished(x)
    \/ ExecuteWait
    \/ ExecuteCleanup
    \/ CallerResumes

SpecVisibility == InitVisibility /\ [][NextVisibility]_vars

ResolutionNames == {"HD 1080", "Render", "4K"}
ValidResolutionPairs == { <<PyInt(640), PyInt(480)>>, <<PyInt(1), PyInt(2000)>> }
InvalidResolutionPairs ==
    { <<PyInt(0), PyInt(480)>>, <<PyInt(640), PyInt(-1)>>,
      <<PyFloat(6405), PyInt(480)>>, <<PyInt(640), PyFloat(4800)>> }
ResolutionLists == ValidResolutionPairs \cup InvalidResolutionPairs \cup { <<PyInt(640)>> }

\* SetResolution with every kind of argument, the render settings changing,
\* and each other setter taking and refusing a value in between
NextResolution ==
    \/ \E r \in ResolutionNames : SetResolution(PyStr(r))
    \/ \E r \in ResolutionLists : SetResolution(PyList(r))
    \/ \E z \in HostRenderSizes : HostRenderSize(z)
    \/ \E z \in HostPlaybackRanges : HostFrameRange("Playback", z)
    \/ SetFfmpegPath("/opt/ffmpeg")
    \/ \E c \in {"cam1", "ghost"} : SetCamera(c)
    \/ \E f \in {"Render", "Bogus"} : SetFrameRange(PyStr(f))
    \/ \E v \in {"Viewport", "Bogus"} : SetVisibility(PyStr(v))
    \/ \E e \in {"png", "h264"} : SetEncoding("Image", e)
    \/ \E q \in {"Low", "Best"} : Seth264Settings(q, "slow")
    \/ \E q \in {50, 101} : SetImageSettings(PyInt(q))

SpecResolution == InitSettings /\ [][NextResolution]_vars

\* names and sequences SetFrameRange is given: the presets and an unknown
\* name; pairs of whole and of fractional frames, sequences of none, one
\* and three
FrameRangeNames == {"Render", "Playback", "Animation", "Bogus"}
FrameRangePairs == { <<PyInt(10), PyInt(20)>>, <<PyFloat(25), PyInt(-3)>> }
FrameRangeLists ==
    FrameRangePairs \cup { <<>>, <<PyInt(5)>>, <<PyInt(1), PyInt(24), PyInt(48)>> }

\* SetFrameRange with every kind of argument while the scene's ranges move
NextFrameRange ==
    \/ \E f \in FrameRangeNames : SetFrameRange(PyStr(f))
    \/ \E f \in FrameRangeLists : SetFrameRange(PyList(f))
    \/ \E z \in HostPlaybackRanges : HostFrameRange("Playback", z)
    \/ \E z \in HostAnimationRanges : HostFrameRange("Animation", z)
    \/ \E z \in HostRenderRanges : HostFrameRange("Render", z)

SpecFrameRange == InitSettings /\ [][NextFrameRange]_vars

\* vectors SetVisibility is given: none, one entry per category, too few
\* and too many
VisibilityLists ==
    { <<>>, [i \in 1..Len(VIEWPORT_VISIBILITY_LOOKUP) |-> i % 2 = 1],
      <<TRUE, FALSE>>, [i \in 1..Len(VIEWPORT_VISIBILITY_LOOKUP) + 1 |-> TRUE] }
\* image qualities SetImageSettings is given: around both ends of 1-100,
\* whole and fractional
ImageQualities ==
    { PyInt(-5), PyInt(0), PyFloat(5), PyInt(1), PyFloat(505), PyInt(100),
      PyFloat(1005), PyInt(101) }

\* the setters of the camera, the visibility and the encoding with valid
\* and invalid arguments
NextSettings ==
    \/ \E c \in {"None", "cam1", "persp", "ghost"} : SetCamera(c)
    \/ \E v \in {"", "Viewport", "Geo", "Dynamics", "Bogus"} : SetVisibility(PyStr(v))
    \/ \E v \in VisibilityLists : SetVisibility(PyList(v))
    \/ \E c \in {"mov", "mp4", "Image", "avi"}, e \in {"h264", "png", "tif", "gif"} :
          SetEncoding(c, e)
    \/ \E q \in {"Very High", "Low", "Best"}, p \in {"veryslow", "ultrafast", "turbo"} :
          Seth264Settings(q, p)
    \/ \E q \in ImageQualities : SetImageSettings(q)

SpecSettings == InitSettings /\ [][NextSettings]_vars

TypeOK ==
    /\ _FfmpegPath \in FfmpegPaths
    /\ _Camera \in SceneCameras \cup {"None"}
    /\ _ContainerFormat \in DOMAIN VIDEO_ENCODER_LOOKUP
    /\ Len(stack) <= MaxDepth
    /\ Len(returned) <= 1
    /\ cameras \subseteq SceneCameras /\ activeCamera \in cameras
    /\ sound \in HostSounds
    /\ tempDir.stray => tempDir.exists

(* ------------------------------ properties ----------------------------- *)
\* the call that has just left execute
Left == returned[1]
\* every call that is in flight or has just left
Calls == {stack[i] : i \in 1..Len(stack)} \cup {returned[i] : i \in 1..Len(returned)}

ViewportAsBefore(call) ==
    /\ activeCamera = call.before.camera
    /\ viewportVisibility = call.before.visibility
    /\ overscan = call.before.overscan

HasError(call) == \E e \in call.log : e.level = "ERROR"

\* C1: a call that reached the capture primitive leaves the active camera,
\* the show flags and the overscan as they were immediately before the call,
\* whether the primitive returned or raised.
C1_RestoredAfterCapture ==
    (returned # <<>> /\ Left.captures > 0) => ViewportAsBefore(Left)

\* C2: once a call has switched the active camera, every way out of execute
\* runs the restoration exactly once, the exceptions raised before the
\* capture primitive included.
C2_RestoredOnEveryExit ==
    (returned # <<>> /\ Left.mutated) => Left.restores = 1

\* C3: with a compressed container, a call whose capture failed has removed
\* the temporary directory and its frames by the time it returns.
C3_TempRemovedAfterFailedCapture ==
    (returned # <<>> /\ RequiresFfmpeg(Left.ContainerFormat) /\ Left.PlayblastFailed)
        => (~tempDir.exists /\ ~tempDir.frames)

\* C4: with a compressed container and a successful capture, RemoveTempDir
\* runs exactly once before execute is left, and only while the encoder
\* process is not running.
C4_TempRemovedOnceAfterEncoder ==
    (/\ returned # <<>>
     /\ RequiresFfmpeg(Left.ContainerFormat)
     /\ Left.captures = 1 /\ ~Left.PlayblastFailed)
        => (Left.removes = 1 /\ Left.removedWhile = "NotRunning")

\* C5: a call that arrives while another has not returned fails fast: it
\* mutates no viewport state, calls no capture, starts no encoder, and
\* leaves with an error.
C5_SingleOperationInFlight ==
    \A call \in Calls :
        call.depth > 1 =>
            /\ ~call.mutated /\ call.captures = 0 /\ call.starts = 0
            /\ call.pc = "left" => (call.exit = "returned" /\ HasError(call))

\* C6: from its first frame until its removal the temporary directory is
\* used by one call only: no other call writes into it, encodes from it or
\* removes it.
C6_TempDirExclusive ==
    \A call \in Calls : ~call.shared

\* the preconditions of C7, as the call found them on entry
EncoderUnavailable(call) ==
    /\ call.ContainerFormat \in {"mov", "mp4"}
    /\ \/ call.FfmpegPath = ""
       \/ ~PathExists(call.FfmpegPath)
       \/ PathIsDir(call.FfmpegPath)
PreconditionFails(call) ==
    \/ EncoderUnavailable(call)
    \/ ~call.focus
    \/ call.OutputDir = ""
    \/ call.FileName = ""

C8_ExistingOutputRefused ==
    (/\ returned # <<>>
     /\ ~PreconditionFails(Left)
     /\ ~Left.Overwrite /\ Left.outputExisted)
        => /\ LogError("Output file already exists.") \in Left.log
           /\ ~Left.mutated /\ Left.captures = 0

\* C9: a call whose encoder failed to start or ended with a non-zero status
\* has emitted an [ERROR] event by the time it returns.
C9_EncodeFailureReported ==
    (returned # <<>> /\ Left.encode \in {"failedToStart", "nonzero"})
        => HasError(Left)

\* C10: an unsupported time unit is resolved inside execute: the call
\* returns (no exception), has logged an error, has started no encoder and
\* has removed the temporary directory.
C10_UnsupportedFrameRateResolved ==
    (returned # <<>> /\ Left.encode = "unsupportedFrameRate")
        => /\ Left.exit = "returned"
           /\ HasError(Left)
           /\ Left.starts = 0
           /\ Left.removes = 1 /\ ~tempDir.exists

(* ------------------------ properties of the setters -------------------- *)
\* the listener's note is of a call of that setter
Did(op) == called # <<>> /\ called[1].op = op
Logged(level) == \E e \in called[1].log : e.level = level

\* a pair with a component that is no integer or not positive, or a name
\* that is no preset
InvalidResolution(Resolution) ==
    IF Resolution.type = "str" THEN Resolution.value \notin DOMAIN RESOLUTION_LOOKUP
    ELSE /\ Len(Resolution.value) = 2
         /\ \E i \in 1..2 : \/ Resolution.value[i].type # "int"
                             \/ Resolution.value[i].tenths <= 0

\* C11: a SetResolution call with an invalid argument (a pair with a
\* non-positive or non-integer component, or an unrecognised name) logs an
\* error and changes nothing: the preset stays stored as a preset and
\* GetResolutionWidthHeight returns what it returned before the call.
C11_InvalidResolutionKeepsStored ==
    [][ (Did("SetResolution")' /\ InvalidResolution(called'[1].arg)) =>
            /\ Logged("ERROR")'
            /\ _ResolutionPreset' = _ResolutionPreset
            /\ GetResolutionWidthHeight' = GetResolutionWidthHeight ]_vars

\* C12: after SetResolution((w, h)) with integers w > 0 and h > 0,
\* GetResolutionWidthHeight returns exactly (w, h), whatever was stored
\* before and whatever the render settings' size is.
C12_ExplicitResolutionRoundTrip ==
    (Did("SetResolution") /\ called[1].arg.type = "list"
        /\ called[1].arg.value \in ValidResolutionPairs)
    => /\ GetResolutionWidthHeight = called[1].arg.value
       /\ ~Logged("ERROR")

C12_Witness ==
    /\ Did("SetResolution") /\ called[1].arg.type = "list"
    /\ called[1].arg.value = <<PyInt(1), PyInt(2000)>>
    /\ GetResolutionWidthHeight = <<PyInt(1), PyInt(2000)>>
    /\ renderSize = <<PyInt(2048), PyInt(1152)>>

\* C15: with the preset 'HD 1080' stored, no call of another setter and no
\* change of the scene modifies the stored resolution, and
\* GetResolutionWidthHeight returns (1920, 1080) after it.
C15_OtherSettersKeepResolution ==
    [][ (_ResolutionPreset = "HD 1080" /\ ~Did("SetResolution")') =>
            /\ UNCHANGED resolution
            /\ GetResolutionWidthHeight' = <<PyInt(1920), PyInt(1080)>> ]_vars

C15_Witness ==
    /\ _ResolutionPreset = "HD 1080"
    /\ Did("Seth264Settings") /\ _h264Quality = "Low"
    /\ _Camera = "cam1" /\ _FrameRangePreset = "Render" /\ _Visibility = <<>>
    /\ _ContainerFormat = "Image" /\ _ImageQuality = PyInt(50)
    /\ _FfmpegPath = "/opt/ffmpeg"
    /\ renderSize = <<PyInt(2048), PyInt(1152)>>
    /\ GetResolutionWidthHeight = <<PyInt(1920), PyInt(1080)>>

\* the scene's range a frame-range preset stands for
HostRange(FrameRangePreset) ==
    CASE FrameRangePreset = "Render" -> renderRange
      [] FrameRangePreset = "Playback" -> playbackRange
      [] FrameRangePreset = "Animation" -> animationRange

SameNumbers(a, b) ==
    Len(a) = Len(b) /\ \A i \in 1..Len(a) : a[i].tenths = b[i].tenths

PresetStoredByName ==
    (Did("SetFrameRange") /\ called[1].arg.type = "str"
        /\ called[1].arg.value \in Range(FRAME_RANGE_PRESETS))
    => _FrameRangePreset = called[1].arg.value

\* C13 as stated: while a frame-range preset (Render, Playback, Animation)
\* is stored, GetStartEndFrame returns the host's range for that preset as
\* it is at the time of the call.
C13_PresetReturnsHostRange ==
    /\ PresetStoredByName
    /\ _FrameRangePreset \in Range(FRAME_RANGE_PRESETS)
         => SameNumbers(GetStartEndFrame, HostRange(_FrameRangePreset))

\* C13 amended: while a frame-range preset is stored, GetStartEndFrame
\* returns the whole frames (int(), towards zero) of the host's range for
\* that preset as it is at the time of the call, not the frames resolved
\* when SetFrameRange was called.
C13_PresetReturnsWholeFramesOfHostRange ==
    /\ PresetStoredByName
    /\ _FrameRangePreset \in Range(FRAME_RANGE_PRESETS)
         => GetStartEndFrame = << ToInt(HostRange(_FrameRangePreset)[1]),
                                 ToInt(HostRange(_FrameRangePreset)[2]) >>

\* the playback range has moved since SetFrameRange('Playback') resolved it
C13_Witness ==
    /\ _FrameRangePreset = "Playback"
    /\ playbackRange = <<PyFloat(15), PyFloat(485)>>
    /\ <<_StartFrame, _EndFrame>> = <<PyInt(1), PyInt(100)>>
    /\ GetStartEndFrame = <<PyInt(1), PyInt(48)>>

\* neither a sequence of two nor a preset's name
NeitherPairNorPreset(FrameRange) ==
    IF FrameRange.type = "str" THEN FrameRange.value \notin Range(FRAME_RANGE_PRESETS)
    ELSE Len(FrameRange.value) # 2

\* C14: after SetFrameRange((start, end)), GetStartEndFrame returns exactly
\* that pair, and goes on returning it when the host's ranges change; a
\* SetFrameRange call whose argument is neither a pair nor a preset name logs
\* an error and leaves the stored frame range unchanged.
C14_ExplicitRangeVerbatimInvalidRefused ==
    [][ /\ (Did("SetFrameRange")' /\ called'[1].arg.type = "list"
              /\ Len(called'[1].arg.value) = 2)
            => GetStartEndFrame' = called'[1].arg.value
        /\ (_FrameRangePreset = "None" /\ ~Did("SetFrameRange")')
            => GetStartEndFrame' = GetStartEndFrame
        /\ (Did("SetFrameRange")' /\ NeitherPairNorPreset(called'[1].arg))
            => (Logged("ERROR")' /\ UNCHANGED frameRange) ]_vars

\* the labels of the categories whose entry in the stored vector is true
ShownLabels ==
    { VIEWPORT_VISIBILITY_LOOKUP[i][1] : i \in { j \in 1..Len(_Visibility) : _Visibility[j] } }

\* C16: SetVisibility('Geo') and SetVisibility('Dynamics') store a vector
\* with one entry per visibility category, in the order of the category
\* table, true exactly for the categories the preset names: for 'Geo',
\* NURBS Surfaces and Polygons.
C16_PresetVectorNamesItsCategories ==
    (Did("SetVisibility") /\ called[1].arg.type = "str"
        /\ called[1].arg.value \in {"Geo", "Dynamics"})
    => /\ Len(_Visibility) = 37
       /\ ShownLabels =
             IF called[1].arg.value = "Geo"
             THEN {"NURBS Surfaces", "Polygons"}
             ELSE {"NURBS Surfaces", "Polygons", "Dynamics", "Fluids", "nParticles"}

C16_Witness ==
    /\ Did("SetVisibility") /\ called[1].arg.type = "str"
    /\ called[1].arg.value = "Dynamics"
    /\ { j \in 1..Len(_Visibility) : _Visibility[j] } = {3, 6, 15, 17, 21}

\* the container-to-encoder table of the claim
AllowedEncodings ==
    { <<"mov", "h264">>, <<"mp4", "h264">>,
      <<"Image", "jpg">>, <<"Image", "png">>, <<"Image", "tif">> }

\* C17: after any sequence of SetEncoding calls the stored (container,
\* encoder) pair is in the allowed table; a call with an unknown container
\* or with an encoder the container does not allow logs an error and leaves
\* both stored values unchanged.
C17_EncodingStaysAllowed ==
    [][ /\ <<_ContainerFormat', _Encoder'>> \in AllowedEncodings
        /\ (Did("SetEncoding")' /\ called'[1].arg \notin AllowedEncodings)
            => (Logged("ERROR")' /\ UNCHANGED <<_ContainerFormat, _Encoder>>)
        /\ (Did("SetEncoding")' /\ called'[1].arg \in AllowedEncodings)
            => <<_ContainerFormat', _Encoder'>> = called'[1].arg ]_vars

C17_Witness ==
    /\ Did("SetEncoding") /\ called[1].arg = <<"Image", "h264">>
    /\ Logged("ERROR")
    /\ <<_ContainerFormat, _Encoder>> = <<"Image", "tif">>

\* C18: SetCamera with the name of a camera that is not in the scene logs an
\* error and leaves the configured camera as it was.
C18_UnknownCameraKeepsCamera ==
    [][ (Did("SetCamera")' /\ called'[1].arg \notin SceneCameras \cup {"None"})
            => (Logged("ERROR")' /\ _Camera' = _Camera) ]_vars

\* an unknown preset name, or a vector that has entries but not one per
\* category
RefusedVisibility(VisibilityData) ==
    IF VisibilityData.type = "str"
    THEN VisibilityData.value \notin {"", "Viewport", "Geo", "Dynamics"}
    ELSE Len(VisibilityData.value) \notin {0, 37}

\* C19: the stored visibility vector is always empty or has one entry per
\* visibility category; a SetVisibility call with an unknown preset name or
\* a vector of another length stores nothing and leaves the stored vector
\* unchanged.
C19_VisibilityVectorWellFormed ==
    [][ /\ Len(_Visibility') \in {0, 37}
        /\ (Did("SetVisibility")' /\ RefusedVisibility(called'[1].arg))
            => UNCHANGED _Visibility ]_vars

\* C20: Seth264Settings stores (quality, preset) only when both are named in
\* their lists, and otherwise logs an error and changes neither;
\* SetImageSettings stores the quality only when it lies in 1..100, and
\* otherwise logs an error and leaves the stored quality.
C20_QualitySettingsValidated ==
    [][ /\ Did("Seth264Settings")' =>
              IF /\ called'[1].arg[1] \in {"Very High", "High", "Medium", "Low"}
                 /\ called'[1].arg[2] \in {"veryslow", "slow", "medium", "fast",
                                            "faster", "ultrafast"}
              THEN <<_h264Quality', _h264Preset'>> = called'[1].arg
              ELSE Logged("ERROR")' /\ UNCHANGED <<_h264Quality, _h264Preset>>
        /\ Did("SetImageSettings")' =>
              IF called'[1].arg.tenths >= 10 * 1 /\ called'[1].arg.tenths <= 10 * 100
              THEN _ImageQuality' = called'[1].arg
              ELSE Logged("ERROR")' /\ UNCHANGED _ImageQuality ]_vars

(* ------------------------ the encoder's command ------------------------ *)
\* a property of every call in flight or just left, and of one of them
EveryCall(P(_)) ==
    /\ \A i \in DOMAIN stack : P(stack[i])
    /\ \A i \in DOMAIN returned : P(returned[i])
SomeCall(P(_)) ==
    \/ \E i \in DOMAIN stack : P(stack[i])
    \/ \E i \in DOMAIN returned : P(returned[i])

\* the call has handed a command to the encoder
Encoding(call) == call.starts > 0
\* the command has an audio input
WithAudio(cmd) == "-i audio" \in Range(cmd.options)

\* the seek offset of a call's command is (start - offset) / rate
AudioOffsetInSeconds(call) ==
    Encoding(call) =>
      \A cmd \in {FfmpegCmd(call)}, start \in {PlayblastOptions(call).startTime.tenths},
         rate \in {GetFrameRate(timeUnit).rate} :
        WithAudio(cmd) =>
           /\ cmd.ss.den > 0
           /\ cmd.ss.num * (10 * rate) = (start - sound.offset.tenths) * cmd.ss.den
           /\ (start = 240 /\ sound.offset.tenths = 0 /\ rate = 24)
                 => cmd.ss.num = cmd.ss.den

\* the seek offset of a call's command is one second
OneSecond(call) ==
    /\ Encoding(call)
    /\ WithAudio(FfmpegCmd(call))
    /\ PlayblastOptions(call).startTime = PyInt(24)
    /\ sound.offset = PyFloat(0)
    /\ GetFrameRate(timeUnit).rate = 24
    /\ FfmpegCmd(call).ss = [num |-> 240, den |-> 240]

\* C21: the seek offset of the audio input is (start - offset) / rate, with
\* the start frame the capture primitive of the same call was given, the
\* sound's offset and the scene's frame rate; from frame 24 with offset 0 at
\* 24 frames a second it is exactly one second.
C21_AudioOffsetInSeconds == EveryCall(AudioOffsetInSeconds)

\* an encoder started from frame 24, the sound at offset 0, 24 frames a
\* second: the seek offset is one second
C21_Witness == SomeCall(OneSecond)

(* ------------------------ the steps of one call ------------------------ *)
\* in a call's trace every step b comes after a step a
ComesAfter(trace, a, b) ==
    \A j \in DOMAIN trace : trace[j] = b => \E i \in 1..(j - 1) : trace[i] = a

\* the steps of a call are in the order of lines 453-485
StepsInOrder(call) ==
    /\ ComesAfter(call.trace, "capture", "start")
    /\ ComesAfter(call.trace, "restore", "start")
    /\ call.starts > 0 =>
          (call.captures = 1 /\ call.restores = 1 /\ ~call.PlayblastFailed)
    /\ call.PlayblastFailed =>
          /\ call.starts = 0 /\ ~call.viewer
          /\ Range(call.trace) \cap {"start", "viewer"} = {}

\* C22: in every call the encoder is started only after the capture
\* primitive has returned without an error and after the viewport has been
\* put back; a call whose capture failed starts no encoder and opens no
\* viewer.
C22_EncoderAfterCaptureAndRestore == EveryCall(StepsInOrder)

\* a call has started its encoder after capture and restoration, and the
\* call made from its event pump has just left with a failed capture
C22_Witness ==
    /\ stack # <<>> /\ returned # <<>>
    /\ stack[1].trace = <<"capture", "restore", "start">>
    /\ Left.PlayblastFailed /\ Left.trace = <<"capture", "restore">>

(* ---------------------------- the camera ------------------------------- *)
\* the call was refused for its camera
NoSuchCamera(call) == LogError("Camera does not exist") \in call.log

\* a call that went on to the viewport did so with the camera of lines 431-433
CameraResolved(call) ==
    call.mutated =>
       /\ call.Camera = (IF _Camera # "None" THEN _Camera ELSE call.before.camera)
       /\ call.Camera \in cameras

\* C23: the capture camera is the configured camera when one is set and the
\* panel's camera otherwise; when that camera is not in the scene, execute
\* logs an error and returns with the active camera, the show flags and the
\* overscan untouched and the capture primitive not called.
C23_CameraResolvedAndChecked ==
    /\ EveryCall(CameraResolved)
    /\ (returned # <<>> /\ CaptureCamera \notin cameras /\ Left.focus
            /\ Left.OutputDir # "" /\ Left.FileName # ""
            /\ ~(RequiresFfmpeg(_ContainerFormat)
                   /\ (~ValidateFfmpeg(_FfmpegPath) \/ (~Left.Overwrite /\ Left.outputExisted))))
          => /\ NoSuchCamera(Left) /\ Left.exit = "returned"
             /\ ~Left.mutated /\ Left.captures = 0
             /\ ViewportAsBefore(Left)

\* the configured camera has been deleted and execute has refused the call
C23_Witness ==
    /\ returned # <<>> /\ NoSuchCamera(Left)
    /\ _Camera = "cam1" /\ "cam1" \notin cameras
    /\ ~Left.mutated /\ ViewportAsBefore(Left)

(* ---------------------------- the overscan ----------------------------- *)
\* the capture primitive of the innermost call is about to be invoked
AtCapture == stack # <<>> /\ Top.pc = "capture"

\* the overscan attributes are as the call found them
OverscanAsBefore(call) ==
    (call.captures = 1 \/ call.Overscan) => overscan = call.before.overscan

\* C24: when the capture primitive is invoked without the overscan asked
\* for, the capture camera's overscan is 1.0, and what it was before is
\* written back after the capture; with the overscan asked for, execute
\* leaves every overscan attribute as it found it.
C24_OverscanNeutralDuringCapture ==
    /\ AtCapture =>
          IF Top.Overscan
          THEN overscan = Top.before.overscan
          ELSE /\ overscan[Top.Camera] = NeutralOverscan
               /\ Top.OrigOverscan = Top.before.overscan[Top.Camera]
    /\ ~AtCapture => EveryCall(OverscanAsBefore)

\* a call made from the event pump of another is at its capture, without
\* the overscan asked for: the camera's margin of 1.3, which the outer call
\* wrote back after its own capture, is 1.0 for the moment
C24_Witness ==
    /\ Len(stack) = 2 /\ AtCapture /\ ~Top.Overscan
    /\ stack[1].captures = 1
    /\ Top.before.overscan[Top.Camera] = 13
    /\ overscan[Top.Camera] = NeutralOverscan

(* ---------------------- the capture's parameters ----------------------- *)
\* the call has invoked the capture primitive
Captured(call) == call.captures = 1

\* the options of a call's capture are the ones of the container's branch
ParametersFollowContainer(call) ==
    Captured(call) =>
        \A Options \in {PlayblastOptions(call)} :
            IF _ContainerFormat \in {"mov", "mp4"}
            THEN /\ Options.filename = <<call.OutputDir, "playblast_temp", call.FileName>>
                 /\ Options.forceOverwrite
                 /\ Options.compression = "png"
                 /\ Options.quality = PyInt(100)
                 /\ Options.indexFromZero
                 /\ ~Options.viewer
            ELSE /\ Options.filename = <<call.OutputDir, call.FileName>>
                 /\ Options.forceOverwrite = call.Overwrite
                 /\ Options.compression = _Encoder
                 /\ Options.quality = _ImageQuality
                 /\ ~Options.indexFromZero
                 /\ Options.viewer = call.ShowInViewer
                 /\ tempDir.owner # call.depth /\ ~call.shared
                 /\ call.pc = "left" => tempDir.exists = call.beforeTemp
                 /\ call.starts = 0 /\ call.removes = 0
                 /\ ffmpegProcess.state = "NotRunning"

\* C25: for a compressed container the frames go under the temporary
\* directory with overwriting forced, PNG compression, quality 100,
\* indices from zero and the host's viewer off; for the Image container
\* they go to the final location with the caller's overwrite flag, the
\* configured image encoder and quality, indices from one and the viewer
\* flag as given, no temporary directory is touched and no encoder started.
C25_CaptureParametersFollowContainer == EveryCall(ParametersFollowContainer)

\* an image sequence has been captured as JPEG of quality 50, with the
\* viewer asked for, next to a temporary directory that was there before
C25_Witness ==
    /\ returned # <<>> /\ Captured(Left) /\ ~Left.PlayblastFailed
    /\ _ContainerFormat = "Image" /\ _Encoder = "jpg" /\ _ImageQuality = PyInt(50)
    /\ PlayblastOptions(Left).quality = PyInt(50)
    /\ PlayblastOptions(Left).viewer
    /\ Left.beforeTemp /\ tempDir.exists

(* --------------------------- the visibility ---------------------------- *)
\* no setter has been called since the constructor (where SetVisibility is
\* the only setter called at all: the visibility has never been set)
NeverSet == called = <<>>

\* C26 as stated: with the stored visibility vector empty, and with the
\* visibility never set, the flags in force when the capture primitive is
\* invoked are the ones the viewport showed when execute was called.
C26_NeverSetKeepsViewport ==
    (AtCapture /\ (_Visibility = <<>> \/ NeverSet))
        => viewportVisibility = Top.before.visibility

\* C26: with an empty stored visibility vector (set to an empty value or
\* with the Viewport preset), the flags in force when the capture primitive
\* is invoked are the ones the viewport showed when execute was called.
C26_EmptyVisibilityKeepsViewport ==
    (AtCapture /\ _Visibility = <<>>) => viewportVisibility = Top.before.visibility

\* a capture is about to run with an emptied vector, in a viewport that
\* shows the polygons and the grid and hides the NURBS curves
C26_Witness ==
    /\ AtCapture /\ _Visibility = <<>> /\ Did("SetVisibility")
    /\ viewportVisibility = Top.before.visibility
    /\ viewportVisibility[6] /\ viewportVisibility[34] /\ ~viewportVisibility[2]

(* ------------------------- the audio arguments ------------------------- *)
AudioOptions == {"-ss", "-i audio", "-filter_complex", "-shortest"}

\* the audio arguments of a call's command
AudioArgumentsTogether(call) ==
    Encoding(call) =>
        \A options \in {FfmpegCmd(call).options} :
            /\ options[3] = "-i frames"
            /\ options[Len(options)] = "output"
            /\ FfmpegCmd(call).output = <<call.OutputDir, call.FileName, _ContainerFormat>>
            /\ IF sound.node /\ sound.file
               THEN /\ \A a \in AudioOptions :
                          \E i \in 4..(Len(options) - 1) : options[i] = a
                    /\ options[4] = "-ss" /\ options[5] = "-i audio"
                    /\ options[Len(options) - 2] = "-filter_complex"
                    /\ options[Len(options) - 1] = "-shortest"
               ELSE \A i \in DOMAIN options : options[i] \notin AudioOptions

\* a call's command with the audio arguments in their places
AudioArgumentsInPlace(call) ==
    /\ Encoding(call)
    /\ sound.node /\ sound.file
    /\ FfmpegCmd(call).options[3] = "-i frames"
    /\ FfmpegCmd(call).options[5] = "-i audio"
    /\ FfmpegCmd(call).options[13] = "-shortest"
    /\ Len(FfmpegCmd(call).options) = 14

\* C27: the encoder's command has the audio input with its seek offset and
\* the pad and shortest flags exactly when the time slider has a sound node
\* whose file is on disk; the three come together or not at all, the audio
\* input stands after the input of the frames, and the output path is the
\* last argument.
C27_AudioArgumentsTogether == EveryCall(AudioArgumentsTogether)

\* an encoder has been started with a sound whose file is on disk
C27_Witness == SomeCall(AudioArgumentsInPlace)

(* ---------------------- the temporary directory ------------------------ *)
\* the events about the removal of the temporary directory
RemovalEvents(call) ==
    { e \in call.log : e.text = "Failed to remove temporary directory" }

\* C28: RemoveTempDir deletes every frame and then the directory; when the
\* directory cannot be removed, as with a stray file in it, the call logs a
\* warning and no error about it and goes on as after a removal: it opens
\* the viewer when asked to and returns.
C28_FailedRemovalOnlyWarns ==
    (returned # <<>> /\ Left.removes = 1 /\ Left.encode # "none") =>
        /\ ~tempDir.frames
        /\ tempDir.exists = tempDir.stray
        /\ tempDir.stray => RemovalEvents(Left) # {}
        /\ \A e \in RemovalEvents(Left) : e.level = "WARNING"
        /\ Left.exit = "returned"
        /\ Left.trace[Len(Left.trace)] = (IF Left.ShowInViewer THEN "viewer" ELSE "remove")
        /\ Left.viewer = (Left.ShowInViewer /\ outputExists)

\* a stray file has kept the directory from being removed: the call has
\* warned, and then opened the viewer on the encoder's output
C28_Witness ==
    /\ returned # <<>> /\ Left.removes = 1
    /\ tempDir.stray /\ tempDir.exists /\ ~tempDir.frames
    /\ LogWarning("Failed to remove temporary directory") \in Left.log
    /\ ~HasError(Left)
    /\ Left.viewer /\ Left.encode = "exit0"

(* ----------------------------- the encoder ----------------------------- *)
\* the call has come to the encode stage of lines 472-485
AtEncodeStage(call) ==
    call.pc \in {"encode", "wait", "cleanup"} \/ call.starts > 0 \/ call.removes > 0

\* a call at the encode stage has h264 to encode with
FindsH264(call) ==
    AtEncodeStage(call) =>
        /\ _Encoder = "h264"
        /\ LogError("Encoding failed. Unsupported encoder") \notin call.log
        /\ call.removes > 0 => call.encode # "none"

\* C29: with the configuration changed through the setters only, every call
\* that comes to the encode stage finds h264 as the stored encoder, and no
\* call takes the branch of the unsupported encoder.
C29_EncodeStageFindsH264 ==
    /\ RequiresFfmpeg(_ContainerFormat) => _Encoder = "h264"
    /\ EveryCall(FindsH264)

\* after SetEncoding("mp4", "h264") a call has come to the encode stage
C29_Witness ==
    /\ stack # <<>> /\ Top.pc = "encode"
    /\ _ContainerFormat = "mp4" /\ _Encoder = "h264"

(* ----------------------------- the viewer ------------------------------ *)
\* the encoder's outcomes: it ended with status 0 or another, it did not
\* start, or the call waited on the process of another call
EncoderOutcomes == {"exit0", "nonzero", "failedToStart", "attached"}
ViewerError == LogError("Failed to open in viewer. File does not exists")

\* C30: with a compressed container and the viewer asked for, the viewer
\* step comes after the removal of the temporary directory whatever the
\* encoder's outcome was; the viewer is launched exactly when the output
\* file is there at that moment, and otherwise an error is logged and no
\* viewer launched.
C30_ViewerAfterRemovalWhateverTheOutcome ==
    (/\ returned # <<>>
     /\ RequiresFfmpeg(Left.ContainerFormat) /\ Left.ShowInViewer
     /\ Left.encode \in EncoderOutcomes)
        => /\ SubSeq(Left.trace, Len(Left.trace) - 1, Len(Left.trace)) = <<"remove", "viewer">>
           /\ ComesAfter(Left.trace, "remove", "viewer")
           /\ Left.viewer = outputExists
           /\ (ViewerError \in Left.log) = ~outputExists

\* the encoder has ended with a status other than 0 and left no output:
\* the directory has been removed, then the viewer step has logged its error
C30_Witness ==
    /\ returned # <<>> /\ Left.ShowInViewer /\ Left.encode = "nonzero"
    /\ Left.trace = <<"capture", "restore", "start", "remove", "viewer">>
    /\ ~outputExists /\ ~Left.viewer /\ ViewerError \in Left.log

====
